---- MODULE Spec2Model ----
(***************************************************************************)
(* State-machine model of dexscreener_bot.py: the admission pipeline of    *)
(* main_loop, the two verification helpers, the SQLAlchemy session         *)
(* (pending batch / committed table), analyze_token_trends and the         *)
(* scheduler loop with its catch-all exception handler.                    *)
(*                                                                         *)
(* Numbers are exact integers (a price in tenths of a dollar); missing     *)
(* JSON values, nulls and non-numeric strings are tagged records so that   *)
(* float() and dict.get() are modelled by what they do.                    *)
(***************************************************************************)
EXTENDS Integers, Sequences, FiniteSets, TLC

VARIABLES
    config,      \* the dict returned by load_config(), read once
    pc,          \* position of main_loop inside the while True body
    token_list,  \* the list iterated by `for token_data in token_list`
    idx,         \* number of candidates of token_list already iterated
    pending,     \* session_db: objects added and not yet committed
    store,       \* table token_snapshots: committed rows, in insertion order
    hour,        \* wall clock, in whole hours (utcnow floored to the hour)
    flagged,     \* flagged_tokens returned by analyze_token_trends
    alerts,      \* notifications attempted in this iteration
    phases,      \* phases entered in this iteration, in order
    last,        \* what the last loop-body pass did, until the commit succeeds
    err,         \* the exception caught by `except Exception`, "" if none
    probe,       \* inputs and result of one direct call of a helper
    alerted      \* per token, the number of its rows in the table when an
                 \* earlier iteration last attempted an alert for it (0: never)

vars == <<config, pc, token_list, idx, pending, store, hour, flagged, alerts,
          phases, last, err, probe, alerted>>

----------------------------------------------------------------------------
(* Bounds of the model *)

MaxList == 2
MaxStore == 2
MaxHour == 1
MaxTrend == 3
MaxAlertRows == 4

----------------------------------------------------------------------------
(* Strings as character codes, so that str.lower() is computed *)

LowerChar(c) == IF c \in 65..90 THEN c + 32 ELSE c

Lower(s) == [i \in DOMAIN s |-> LowerChar(s[i])]

\* "RUG", "Rug", "dev"
DevRUG == <<82, 85, 71>>
DevRug == <<82, 117, 103>>
DevDev == <<100, 101, 118>>

\* token_data.get('developer'): None, or a string (possibly empty)
NoDev == [present |-> FALSE, s |-> <<>>]
Dev(s) == [present |-> TRUE, s |-> s]

\* token_data.get('tokenAddress') is None
NoAddr == "None"

----------------------------------------------------------------------------
(* JSON values as they arrive, and float() on them *)

Absent == [t |-> "absent", v |-> 0]
Null == [t |-> "null", v |-> 0]
Junk == [t |-> "str", v |-> 0]
Num(n) == [t |-> "num", v |-> n]
NumStr(n) == [t |-> "numstr", v |-> n]

\* float(d.get(key, 0)) inside try/except (TypeError, ValueError): the
\* default 0 for an absent key, TypeError for null, ValueError for a
\* non-numeric string
FloatOrZero(x) ==
    CASE x.t = "absent" -> 0
      [] x.t = "null" -> 0
      [] x.t = "str" -> 0
      [] x.t = "num" -> x.v
      [] x.t = "numstr" -> x.v

\* a nested container such as info['liquidity'] or info['volume']:
\* c = "absent" (key missing, default {}), "null" (JSON null) or "dict"
Box(c, x) == [c |-> c, x |-> x]

\* info.get(k, {}).get(sub, 0): None has no .get, and AttributeError is not
\* among the exceptions the try catches
NestedRaises(box) == box.c = "null"

NestedFloat(box) == IF box.c = "dict" THEN FloatOrZero(box.x) ELSE 0

\* Python truthiness of an optional string setting (None and "" are falsy)
Truthy(s) == s # ""

----------------------------------------------------------------------------
(* Provider responses *)

\* k: "neterr" (requests.post raises), "http" (raise_for_status raises),
\*    "notjson" (response.json() raises), "nonobj" (JSON that is not an
\*    object: .get raises AttributeError), "obj" (a JSON object)
PUResp(k, a) == [k |-> k, volumeAuthentic |-> a]

RugResp(k, s, b) == [k |-> k, status |-> s, bundled |-> b]

NoPU == PUResp("none", "absent")
NoRug == RugResp("none", "", "absent")

CallFails(resp) == resp.k \in {"neterr", "http", "notjson", "nonobj"}

----------------------------------------------------------------------------
(* verify_volume(token_data, config): token_data is the pair record `info` *)

\* result.get("volumeAuthentic", False) is truthy
VolumeAuthentic(resp) == resp.volumeAuthentic = "true"

\* the Pocket Universe branch is entered and the POST is issued
PocketUniverseCalled(cfg) ==
    /\ cfg.use_pocket_universe
    /\ Truthy(cfg.pu_api_url) /\ Truthy(cfg.pu_api_token)

\* verify_volume whose except branch lets the candidate through (fail open)
verify_volume_FailOpen(info, cfg, resp) ==
    IF NestedRaises(info.volume)
    THEN [raised |-> TRUE, ret |-> FALSE, called |-> FALSE]
    ELSE IF cfg.use_internal_algorithm
            /\ NestedFloat(info.volume) < cfg.fake_volume_threshold
         THEN [raised |-> FALSE, ret |-> FALSE, called |-> FALSE]
         ELSE IF PocketUniverseCalled(cfg)
              THEN IF CallFails(resp)
                   THEN [raised |-> FALSE, ret |-> TRUE, called |-> TRUE]
                   ELSE [raised |-> FALSE, ret |-> VolumeAuthentic(resp),
                         called |-> TRUE]
              ELSE [raised |-> FALSE, ret |-> TRUE, called |-> FALSE]

\* verify_volume in which an authentic answer of Pocket Universe admits the
\* candidate before the internal algorithm is consulted
verify_volume_ProviderOverrides(info, cfg, resp) ==
    IF NestedRaises(info.volume)
    THEN [raised |-> TRUE, ret |-> FALSE, called |-> FALSE]
    ELSE IF PocketUniverseCalled(cfg) /\ ~CallFails(resp) /\ VolumeAuthentic(resp)
         THEN [raised |-> FALSE, ret |-> TRUE, called |-> TRUE]
         ELSE IF cfg.use_internal_algorithm
                 /\ NestedFloat(info.volume) < cfg.fake_volume_threshold
              THEN [raised |-> FALSE, ret |-> FALSE, called |-> FALSE]
              ELSE IF PocketUniverseCalled(cfg)
                   THEN [raised |-> FALSE, ret |-> FALSE, called |-> TRUE]
                   ELSE [raised |-> FALSE, ret |-> TRUE, called |-> FALSE]

\* [raised, ret, called]: raised = an exception leaves verify_volume;
\* ret = the returned boolean; called = the POST was issued
verify_volume(info, cfg, resp) ==
    IF NestedRaises(info.volume)
    THEN [raised |-> TRUE, ret |-> FALSE, called |-> FALSE]
    ELSE LET current_volume == NestedFloat(info.volume) IN
         IF cfg.use_internal_algorithm /\ current_volume < cfg.fake_volume_threshold
         THEN [raised |-> FALSE, ret |-> FALSE, called |-> FALSE]
         ELSE IF PocketUniverseCalled(cfg)
              THEN IF CallFails(resp)
                   THEN [raised |-> FALSE, ret |-> FALSE, called |-> TRUE]
                   ELSE [raised |-> FALSE, ret |-> VolumeAuthentic(resp),
                         called |-> TRUE]
              ELSE [raised |-> FALSE, ret |-> TRUE, called |-> FALSE]

----------------------------------------------------------------------------
(* verify_rugcheck(token_data, config): token_data is the profile record *)

RugcheckConfigured(addr, cfg) ==
    /\ Truthy(cfg.rug_api_url) /\ Truthy(cfg.rug_api_token)
    /\ addr # NoAddr /\ addr # ""

\* result.get("status", "") and result.get("bundled", False)
RugStatus(resp) == resp.status

RugBundled(resp) == resp.bundled = "true"

verify_rugcheck(addr, cfg, resp) ==
    IF ~RugcheckConfigured(addr, cfg)
    THEN [raised |-> FALSE, ret |-> FALSE, called |-> FALSE]
    ELSE IF CallFails(resp)
         THEN [raised |-> FALSE, ret |-> FALSE, called |-> TRUE]
         ELSE IF RugStatus(resp) # cfg.required_status
              THEN [raised |-> FALSE, ret |-> FALSE, called |-> TRUE]
              ELSE IF RugBundled(resp)
                   THEN [raised |-> FALSE, ret |-> FALSE, called |-> TRUE]
                   ELSE [raised |-> FALSE, ret |-> TRUE, called |-> TRUE]

----------------------------------------------------------------------------
(* Configuration (config.json), as main_loop and the helpers read it *)

\* the settings every modelled configuration shares: prices in tenths of a
\* dollar (the band is [1.0, 1.6]), liquidity in thousands of dollars
BaseConfig ==
    [coin_blacklist |-> {"0xBad"},
     dev_blacklist |-> {DevRug},
     min_liquidity_usd |-> 20,
     min_price_usd |-> 10,
     max_price_usd |-> 16,
     use_internal_algorithm |-> TRUE,
     fake_volume_threshold |-> 5,
     use_pocket_universe |-> TRUE,
     pu_api_url |-> "pu_url",
     pu_api_token |-> "pu_token",
     rug_api_url |-> "rug_url",
     rug_api_token |-> "rug_token",
     required_status |-> "Good",
     tg_bot_token |-> "bot_token",
     tg_chat_id |-> "chat_id"]

With(cfg, internal, pu, puUrl, puTok, rugUrl, rugTok) ==
    [cfg EXCEPT !.use_internal_algorithm = internal,
                !.use_pocket_universe = pu,
                !.pu_api_url = puUrl, !.pu_api_token = puTok,
                !.rug_api_url = rugUrl, !.rug_api_token = rugTok]

\* configurations of the scheduler model: everything enabled; the internal
\* algorithm alone, both providers left out of config.json; both providers
\* without the internal algorithm
LoopConfigs ==
    {BaseConfig,
     With(BaseConfig, TRUE, FALSE, "", "", "", ""),
     With(BaseConfig, FALSE, TRUE, "pu_url", "pu_token", "rug_url", "rug_token")}

----------------------------------------------------------------------------
(* Inputs of one loop-body pass *)

Candidate(addr, dev) == [tokenAddress |-> addr, developer |-> dev]

InfoResp(k, liq, price, vol) ==
    [k |-> k, liquidity |-> liq, priceUsd |-> price, volume |-> vol]

NoInfo == InfoResp("none", Box("absent", Absent), Absent, Box("absent", Absent))

NoCandidate == Candidate(NoAddr, NoDev)

\* token_addr in coin_blacklist
CoinBlacklisted(cand, cfg) == cand.tokenAddress \in cfg.coin_blacklist

\* dev and (dev.lower() in [d.lower() for d in dev_blacklist])
DevBlacklisted(cand, cfg) ==
    /\ cand.developer.present
    /\ cand.developer.s # <<>>
    /\ Lower(cand.developer.s) \in {Lower(d) : d \in cfg.dev_blacklist}

\* liquidity < filters.get("min_liquidity_usd", 0)
LowLiquidity(liquidity, cfg) == liquidity < cfg.min_liquidity_usd

\* not (min_price_usd <= price_usd <= max_price_usd)
PriceOutOfRange(price_usd, cfg) ==
    ~(cfg.min_price_usd <= price_usd /\ price_usd <= cfg.max_price_usd)

\* the TokenSnapshot built at the end of the loop body; rug_ok is not a
\* column: it records what verify_rugcheck returned for the candidate
Snapshot(cand, price_usd, liquidity, volume_usd, rug_ok) ==
    [token_address |-> cand.tokenAddress,
     price_usd |-> price_usd,
     liquidity |-> liquidity,
     volume_usd |-> volume_usd,
     rug_ok |-> rug_ok]

NoSnapshot == Snapshot(NoCandidate, 0, 0, 0, FALSE)

Outcome(stage, calls, raised, queued, snap, info, pu, rug) ==
    [stage |-> stage, calls |-> calls, raised |-> raised, queued |-> queued,
     snapshot |-> snap, info |-> info, pu |-> pu, rug |-> rug]

\* AdmitVerified with the two verifications swapped: RugCheck is asked before
\* the volume is verified
AdmitVerified_RugFirst(cand, cfg, info, pu, rug, liquidity, price_usd) ==
    LET vr == verify_rugcheck(cand.tokenAddress, cfg, rug)
        c1 == IF vr.called THEN <<"get_token_info", "rugcheck">>
              ELSE <<"get_token_info">>
        rug1 == IF vr.called THEN rug ELSE NoRug
        vv == verify_volume(info, cfg, pu)
        c2 == IF vv.called THEN Append(c1, "pocket_universe") ELSE c1
        pu1 == IF vv.called THEN pu ELSE NoPU
    IN  IF vv.raised
        THEN Outcome("volume", c2, "AttributeError", FALSE, NoSnapshot,
                     info, pu1, rug1)
        ELSE IF ~vv.ret
        THEN Outcome("volume", c2, "", FALSE, NoSnapshot, info, pu1, rug1)
        ELSE Outcome("admitted", c2, "", TRUE,
                     Snapshot(cand, price_usd, liquidity,
                              NestedFloat(info.volume), vr.ret),
                     info, pu1, rug1)

\* AdmitVerified with a `continue` after the rugcheck log line: a failed
\* RugCheck keeps the candidate out of the session
AdmitVerified_RugGate(cand, cfg, info, pu, rug, liquidity, price_usd) ==
    LET vv == verify_volume(info, cfg, pu)
        c1 == IF vv.called THEN <<"get_token_info", "pocket_universe">>
              ELSE <<"get_token_info">>
        pu1 == IF vv.called THEN pu ELSE NoPU
    IN  IF vv.raised
        THEN Outcome("volume", c1, "AttributeError", FALSE, NoSnapshot,
                     info, pu1, NoRug)
        ELSE IF ~vv.ret
        THEN Outcome("volume", c1, "", FALSE, NoSnapshot, info, pu1, NoRug)
        ELSE LET vr == verify_rugcheck(cand.tokenAddress, cfg, rug)
                 c2 == IF vr.called THEN Append(c1, "rugcheck") ELSE c1
                 rug1 == IF vr.called THEN rug ELSE NoRug
             IN  IF ~vr.ret
                 THEN Outcome("rugcheck", c2, "", FALSE, NoSnapshot,
                              info, pu1, rug1)
                 ELSE Outcome("admitted", c2, "", TRUE,
                              Snapshot(cand, price_usd, liquidity,
                                       NestedFloat(info.volume), vr.ret),
                              info, pu1, rug1)

\* the tail of the loop body, from verify_volume on
AdmitVerified(cand, cfg, info, pu, rug, liquidity, price_usd) ==
    LET vv == verify_volume(info, cfg, pu)
        c1 == IF vv.called THEN <<"get_token_info", "pocket_universe">>
              ELSE <<"get_token_info">>
        pu1 == IF vv.called THEN pu ELSE NoPU
    IN  IF vv.raised
        THEN Outcome("volume", c1, "AttributeError", FALSE, NoSnapshot,
                     info, pu1, NoRug)
        ELSE IF ~vv.ret
        THEN Outcome("volume", c1, "", FALSE, NoSnapshot, info, pu1, NoRug)
        ELSE LET vr == verify_rugcheck(cand.tokenAddress, cfg, rug)
                 c2 == IF vr.called THEN Append(c1, "rugcheck") ELSE c1
                 rug1 == IF vr.called THEN rug ELSE NoRug
                 volume_usd == NestedFloat(info.volume)
             IN  Outcome("admitted", c2, "", TRUE,
                         Snapshot(cand, price_usd, liquidity, volume_usd, vr.ret),
                         info, pu1, rug1)

\* ProcessCandidate with get_token_info moved above the blacklist checks
ProcessCandidate_FetchFirst(cand, cfg, info, pu, rug) ==
    IF info.k = "error"
    THEN Outcome("fetch", <<"get_token_info">>, "HTTPError", FALSE, NoSnapshot,
                 info, NoPU, NoRug)
    ELSE IF info.k = "empty"
    THEN Outcome("fetch", <<"get_token_info">>, "IndexError", FALSE, NoSnapshot,
                 info, NoPU, NoRug)
    ELSE IF CoinBlacklisted(cand, cfg)
    THEN Outcome("coin_blacklist", <<"get_token_info">>, "", FALSE, NoSnapshot,
                 info, NoPU, NoRug)
    ELSE IF DevBlacklisted(cand, cfg)
    THEN Outcome("dev_blacklist", <<"get_token_info">>, "", FALSE, NoSnapshot,
                 info, NoPU, NoRug)
    ELSE IF NestedRaises(info.liquidity)
    THEN Outcome("liquidity", <<"get_token_info">>, "AttributeError", FALSE,
                 NoSnapshot, info, NoPU, NoRug)
    ELSE LET liquidity == NestedFloat(info.liquidity)
             price_usd == FloatOrZero(info.priceUsd)
         IN  IF LowLiquidity(liquidity, cfg)
             THEN Outcome("liquidity", <<"get_token_info">>, "", FALSE,
                          NoSnapshot, info, NoPU, NoRug)
             ELSE IF PriceOutOfRange(price_usd, cfg)
             THEN Outcome("price", <<"get_token_info">>, "", FALSE,
                          NoSnapshot, info, NoPU, NoRug)
             ELSE AdmitVerified(cand, cfg, info, pu, rug, liquidity, price_usd)

\* one pass of the body of `for token_data in token_list`
ProcessCandidate(cand, cfg, info, pu, rug) ==
    IF CoinBlacklisted(cand, cfg)
    THEN Outcome("coin_blacklist", <<>>, "", FALSE, NoSnapshot, NoInfo, NoPU, NoRug)
    ELSE IF DevBlacklisted(cand, cfg)
    THEN Outcome("dev_blacklist", <<>>, "", FALSE, NoSnapshot, NoInfo, NoPU, NoRug)
    ELSE IF info.k = "error"
    THEN Outcome("fetch", <<"get_token_info">>, "HTTPError", FALSE, NoSnapshot,
                 info, NoPU, NoRug)
    ELSE IF info.k = "empty"
    THEN Outcome("fetch", <<"get_token_info">>, "IndexError", FALSE, NoSnapshot,
                 info, NoPU, NoRug)
    ELSE IF NestedRaises(info.liquidity)
    THEN Outcome("liquidity", <<"get_token_info">>, "AttributeError", FALSE,
                 NoSnapshot, info, NoPU, NoRug)
    ELSE LET liquidity == NestedFloat(info.liquidity)
             price_usd == FloatOrZero(info.priceUsd)
         IN  IF LowLiquidity(liquidity, cfg)
             THEN Outcome("liquidity", <<"get_token_info">>, "", FALSE,
                          NoSnapshot, info, NoPU, NoRug)
             ELSE IF PriceOutOfRange(price_usd, cfg)
             THEN Outcome("price", <<"get_token_info">>, "", FALSE,
                          NoSnapshot, info, NoPU, NoRug)
             ELSE AdmitVerified(cand, cfg, info, pu, rug, liquidity, price_usd)

----------------------------------------------------------------------------
(* analyze_token_trends(session, config) *)

\* the threshold of `if change > 50`
PumpThreshold == 50

\* a committed row: the columns of the snapshot plus the timestamp column,
\* whose default (utcnow) is taken when the row is inserted
Stamp(snap, h) ==
    [token_address |-> snap.token_address,
     price_usd |-> snap.price_usd,
     liquidity |-> snap.liquidity,
     volume_usd |-> snap.volume_usd,
     timestamp |-> h]

StampAll(batch, h) == [i \in DOMAIN batch |-> Stamp(batch[i], h)]

\* df.sort_values('timestamp'): rows are inserted in clock order, so the
\* rows of one hour keep their insertion order
RECURSIVE SortByTimestamp(_)
SortByTimestamp(rows) ==
    IF rows = <<>> THEN <<>>
    ELSE LET lo == CHOOSE i \in DOMAIN rows :
                     \A j \in DOMAIN rows :
                        \/ rows[i].timestamp < rows[j].timestamp
                        \/ (rows[i].timestamp = rows[j].timestamp /\ i <= j)
             rest == [k \in 1..(Len(rows) - 1) |->
                        IF k < lo THEN rows[k] ELSE rows[k + 1]]
         IN  <<rows[lo]>> \o SortByTimestamp(rest)

\* the keys of df.groupby('token_address'), in the order groupby yields them
TokenOrder == <<"0xA", "0xB">>

\* one group of the groupby
Group(rows, token) == SelectSeq(rows, LAMBDA r : r.token_address = token)

HoursOf(g) == {g[i].timestamp : i \in DOMAIN g}

\* .last() of one hourly bucket
LastIn(g, h) ==
    LET i == CHOOSE k \in DOMAIN g :
               /\ g[k].timestamp = h
               /\ \A j \in DOMAIN g : g[j].timestamp = h => j <= k
    IN  g[i].price_usd

\* group['price_usd'].resample('1h').last().dropna(): one price per hour that
\* has rows, in ascending hour order
RECURSIVE HourlyFrom(_, _, _)
HourlyFrom(g, h, top) ==
    IF h > top THEN <<>>
    ELSE (IF h \in HoursOf(g) THEN <<LastIn(g, h)>> ELSE <<>>)
         \o HourlyFrom(g, h + 1, top)

Hourly(g) ==
    IF g = <<>> THEN <<>>
    ELSE LET hs == HoursOf(g)
             lo == CHOOSE h \in hs : \A k \in hs : h <= k
             hi == CHOOSE h \in hs : \A k \in hs : k <= h
         IN  HourlyFrom(g, lo, hi)

\* (hourly.iloc[-1] - hourly.iloc[0]) / hourly.iloc[0] * 100 as the exact
\* fraction num/den; den = 0 is numpy's division by zero, which yields
\* inf, -inf or nan and raises nothing
Change(hourly) ==
    [num |-> (hourly[Len(hourly)] - hourly[1]) * 100, den |-> hourly[1]]

\* ChangeExceeds with >= in place of >
ChangeExceeds_AtLeast(c, limit) ==
    IF c.den = 0 THEN c.num > 0
    ELSE IF c.den > 0 THEN c.num >= limit * c.den
    ELSE c.num <= limit * c.den

\* change > 50 on numpy floats: inf > 50 is True, nan > 50 and -inf > 50
\* are False
ChangeExceeds(c, limit) ==
    IF c.den = 0 THEN c.num > 0
    ELSE IF c.den > 0 THEN c.num > limit * c.den
    ELSE c.num < limit * c.den

\* the body of the groupby loop for one token: does it append to flagged
Flags(rows, token) ==
    LET hourly == Hourly(Group(SortByTimestamp(rows), token))
    IN  IF Len(hourly) < 2 THEN FALSE
        ELSE ChangeExceeds(Change(hourly), PumpThreshold)

Signal(rows, token) ==
    [token |-> token,
     change |-> Change(Hourly(Group(SortByTimestamp(rows), token)))]

analyze_token_trends(rows) ==
    LET hit == SelectSeq(TokenOrder, LAMBDA t : Flags(rows, t))
    IN  [i \in DOMAIN hit |-> Signal(rows, hit[i])]

----------------------------------------------------------------------------
(* Inputs the environment can hand to one iteration of main_loop *)

SeqsUpTo(S, n) == UNION {[1..k -> S] : k \in 0..n}

LoopCandidates ==
    {Candidate("0xA", NoDev), Candidate("0xA", Dev(DevDev)),
     Candidate("0xA", Dev(DevRUG)), Candidate("0xBad", NoDev)}

LoopInfos ==
    {InfoResp("error", Box("absent", Absent), Absent, Box("absent", Absent)),
     InfoResp("empty", Box("absent", Absent), Absent, Box("absent", Absent))}
    \cup {InfoResp("ok", Box("dict", Num(20)), Num(10), Box("dict", Num(5))),
          InfoResp("ok", Box("dict", Num(20)), NumStr(16), Box("dict", Num(5))),
          InfoResp("ok", Box("dict", Num(5)), Num(10), Box("dict", Num(5))),
          InfoResp("ok", Box("dict", Num(20)), Num(30), Box("dict", Num(5))),
          InfoResp("ok", Box("dict", Num(20)), Junk, Box("dict", Num(5))),
          InfoResp("ok", Box("dict", Num(20)), Num(10), Box("dict", Num(2)))}

LoopPUResps == {PUResp("neterr", "absent"), PUResp("obj", "true"),
                PUResp("obj", "false")}

LoopRugResps == {RugResp("http", "", "absent"), RugResp("obj", "Good", "false"),
                 RugResp("obj", "Good", "true"), RugResp("obj", "Bad", "false")}

AnyInfo == CHOOSE x \in LoopInfos : TRUE
AnyPU == CHOOSE x \in LoopPUResps : TRUE
AnyRug == CHOOSE x \in LoopRugResps : TRUE

\* the value of client.get_latest_token_profiles(): it raises ("error"), or
\* returns a list, a dict whose 'data' is the list, or anything else
ProfilesResp(k, items) == [k |-> k, items |-> items]

\* the isinstance chain that turns profiles into token_list
TokenListOf(profiles) ==
    IF profiles.k = "dict" THEN profiles.items
    ELSE IF profiles.k = "list" THEN profiles.items
    ELSE <<>>

\* no alert has been attempted for any token
NoAlerted == [t \in {"0xA", "0xB"} |-> 0]

\* discarded: how many uncommitted snapshots the handler's rollback removed
NoLast == [cand |-> NoCandidate,
           out |-> Outcome("none", <<>>, "", FALSE, NoSnapshot, NoInfo, NoPU, NoRug),
           discarded |-> 0]

NoProbe == [fn |-> "none", cfg |-> BaseConfig, addr |-> NoAddr, info |-> NoInfo,
            pu |-> NoPU, rug |-> NoRug, done |-> FALSE,
            raised |-> FALSE, ret |-> FALSE, called |-> FALSE]

----------------------------------------------------------------------------
(* main_loop *)

Init ==
    /\ config \in LoopConfigs
    /\ pc = "fetch"
    /\ token_list = <<>>
    /\ idx = 0
    /\ pending = <<>>
    /\ store = <<>>
    /\ hour = 0
    /\ flagged = <<>>
    /\ alerts = <<>>
    /\ phases = <<>>
    /\ last = NoLast
    /\ err = ""
    /\ probe = NoProbe
    /\ alerted = NoAlerted

\* profiles = client.get_latest_token_profiles() and the isinstance chain
Fetch ==
    /\ pc = "fetch"
    /\ \E k \in {"error", "list", "dict", "other"} :
       \E items \in SeqsUpTo(LoopCandidates, MaxList) :
          /\ Len(store) + Len(items) <= MaxStore
          /\ k \in {"error", "other"} => items = <<>>
          /\ IF k = "error"
             THEN /\ pc' = "except"
                  /\ err' = "fetch"
                  /\ token_list' = <<>>
             ELSE /\ pc' = "loop"
                  /\ err' = ""
                  /\ token_list' = TokenListOf(ProfilesResp(k, items))
    /\ idx' = 0
    /\ phases' = <<"fetch">>
    /\ UNCHANGED <<config, alerted, pending, store, hour, flagged, alerts, last, probe>>

\* one pass of the for-loop body for token_list[idx + 1]
Admit ==
    /\ pc = "loop"
    /\ idx < Len(token_list)
    /\ \E info \in LoopInfos, pu \in LoopPUResps, rug \in LoopRugResps :
          LET cand == token_list[idx + 1]
              out == ProcessCandidate(cand, config, info, pu, rug)
          IN  \* an answer to a call that is never made is not an input
              /\ out.info = NoInfo => info = AnyInfo
              /\ out.pu = NoPU => pu = AnyPU
              /\ out.rug = NoRug => rug = AnyRug
              /\ last' = [cand |-> cand, out |-> out, discarded |-> 0]
              /\ IF out.raised # ""
                 THEN /\ pc' = "except"
                      /\ err' = "admit"
                      /\ UNCHANGED <<idx, pending>>
                 ELSE /\ pc' = "loop"
                      /\ idx' = idx + 1
                      /\ pending' = IF out.queued
                                    THEN Append(pending, out.snapshot)
                                    ELSE pending
                      /\ UNCHANGED err
    /\ phases' = IF phases[Len(phases)] = "admit" THEN phases
                 ELSE Append(phases, "admit")
    /\ UNCHANGED <<config, alerted, token_list, store, hour, flagged, alerts, probe>>

\* Commit whose failure leaves the first pending row in the table
Commit_PartialWrite ==
    /\ pc = "loop"
    /\ idx = Len(token_list)
    /\ \E ok \in BOOLEAN :
          IF ok
          THEN /\ store' = store \o StampAll(pending, hour)
               /\ pending' = <<>>
               /\ pc' = "analyze"
               /\ UNCHANGED err
          ELSE /\ pc' = "except"
               /\ err' = "commit"
               /\ store' = IF pending = <<>> THEN store
                           ELSE Append(store, Stamp(pending[1], hour))
               /\ UNCHANGED pending
    /\ phases' = Append(phases, "commit")
    /\ UNCHANGED <<config, alerted, token_list, idx, hour, flagged, alerts, last, probe>>

\* Commit that hands over to the analysis without flushing the session
Commit_Deferred ==
    /\ pc = "loop"
    /\ idx = Len(token_list)
    /\ \E ok \in BOOLEAN :
          IF ok
          THEN /\ pc' = "analyze"
               /\ last' = NoLast
               /\ UNCHANGED <<store, pending, err>>
          ELSE /\ pc' = "except"
               /\ err' = "commit"
               /\ UNCHANGED <<store, pending, last>>
    /\ phases' = Append(phases, "commit")
    /\ UNCHANGED <<config, alerted, token_list, idx, hour, flagged, alerts, probe>>

\* session_db.commit() after the for loop: all pending rows are inserted in
\* one transaction, or the flush raises and nothing is inserted
Commit ==
    /\ pc = "loop"
    /\ idx = Len(token_list)
    /\ \E ok \in BOOLEAN :
          IF ok
          THEN /\ store' = store \o StampAll(pending, hour)
               /\ pending' = <<>>
               /\ pc' = "analyze"
               /\ last' = NoLast
               /\ UNCHANGED err
          ELSE /\ pc' = "except"
               /\ err' = "commit"
               /\ UNCHANGED <<store, pending, last>>
    /\ phases' = Append(phases, "commit")
    /\ UNCHANGED <<config, alerted, token_list, idx, hour, flagged, alerts, probe>>

\* Analyze that remembers earlier alerts: a token alerted for in an earlier
\* iteration is dropped from the signals
Analyze_Dedup ==
    /\ pc = "analyze"
    /\ \E ok \in BOOLEAN :
          IF ok
          THEN /\ flagged' = SelectSeq(analyze_token_trends(store),
                                       LAMBDA sg : alerted[sg.token] = 0)
               /\ pc' = IF flagged' # <<>> THEN "alert" ELSE "sleep"
               /\ UNCHANGED err
          ELSE /\ pc' = "except"
               /\ err' = "analyze"
               /\ UNCHANGED flagged
    /\ phases' = Append(phases, "analyze")
    /\ UNCHANGED <<config, alerted, token_list, idx, pending, store, hour, alerts,
                   last, probe>>

\* flagged_tokens = analyze_token_trends(session_db, config); the query can
\* raise
Analyze ==
    /\ pc = "analyze"
    /\ \E ok \in BOOLEAN :
          IF ok
          THEN /\ flagged' = analyze_token_trends(store)
               /\ pc' = IF flagged' # <<>> THEN "alert" ELSE "sleep"
               /\ UNCHANGED err
          ELSE /\ pc' = "except"
               /\ err' = "analyze"
               /\ UNCHANGED flagged
    /\ phases' = Append(phases, "analyze")
    /\ UNCHANGED <<config, alerted, token_list, idx, pending, store, hour, alerts, last, probe>>

\* what one send_telegram_notification call can do: nothing when the
\* telegram settings are missing, otherwise the message is sent or the
\* delivery error is logged
NotifyOutcomes(cfg) ==
    IF Truthy(cfg.tg_bot_token) /\ Truthy(cfg.tg_chat_id)
    THEN {"sent", "failed"}
    ELSE {"noop"}

\* Alert in which a failed delivery is not absorbed: the exception leaves
\* send_telegram_notification and reaches the handler of main_loop
Alert_DeliveryRaises ==
    /\ pc = "alert"
    /\ Len(alerts) < Len(flagged)
    /\ \E o \in NotifyOutcomes(config) :
          /\ alerts' = Append(alerts, [token |-> flagged[Len(alerts) + 1].token,
                                       outcome |-> o])
          /\ IF o = "failed"
             THEN pc' = "except" /\ err' = "alert"
             ELSE /\ pc' = IF Len(alerts') = Len(flagged) THEN "sleep" ELSE "alert"
                  /\ UNCHANGED err
    /\ phases' = IF phases[Len(phases)] = "alert" THEN phases
                 ELSE Append(phases, "alert")
    /\ UNCHANGED <<config, alerted, token_list, idx, pending, store, hour, flagged, last,
                   probe>>

\* one pass of `for token, pct in flagged_tokens`
Alert ==
    /\ pc = "alert"
    /\ Len(alerts) < Len(flagged)
    /\ \E o \in NotifyOutcomes(config) :
          alerts' = Append(alerts, [token |-> flagged[Len(alerts) + 1].token,
                                    outcome |-> o])
    /\ pc' = IF Len(alerts') = Len(flagged) THEN "sleep" ELSE "alert"
    /\ phases' = IF phases[Len(phases)] = "alert" THEN phases
                 ELSE Append(phases, "alert")
    /\ UNCHANGED <<config, alerted, token_list, idx, pending, store, hour, flagged, last,
                   err, probe>>

\* main_loop without the try/except: the exception leaves the while loop
Except_Propagates ==
    /\ pc = "except"
    /\ pc' = "terminated"
    /\ UNCHANGED <<config, alerted, token_list, idx, pending, store, hour, flagged,
                   alerts, phases, last, err, probe>>

\* Except whose rollback also removes the row committed last
Except_UndoesCommit ==
    /\ pc = "except"
    /\ pending' = <<>>
    /\ store' = IF store = <<>> THEN store ELSE SubSeq(store, 1, Len(store) - 1)
    /\ pc' = "sleep"
    /\ phases' = Append(phases, "rollback")
    /\ last' = [last EXCEPT !.discarded = Len(pending)]
    /\ UNCHANGED <<config, alerted, token_list, idx, hour, flagged, alerts, err, probe>>

\* Except without the rollback: the session keeps what was added to it
Except_KeepsPending ==
    /\ pc = "except"
    /\ pc' = "sleep"
    /\ phases' = Append(phases, "rollback")
    /\ last' = [last EXCEPT !.discarded = 0]
    /\ UNCHANGED <<config, alerted, token_list, idx, pending, store, hour, flagged,
                   alerts, err, probe>>

\* except Exception as e: logging.error(...); session_db.rollback()
Except ==
    /\ pc = "except"
    /\ pending' = <<>>
    /\ pc' = "sleep"
    /\ phases' = Append(phases, "rollback")
    /\ last' = [last EXCEPT !.discarded = Len(pending)]
    /\ UNCHANGED <<config, alerted, token_list, idx, store, hour, flagged, alerts, err,
                   probe>>

\* time.sleep(600), then the next iteration of while True
Sleep ==
    /\ pc = "sleep"
    /\ hour' \in {h \in {hour, hour + 1} : h <= MaxHour}
    /\ pc' = "fetch"
    /\ token_list' = <<>>
    /\ idx' = 0
    /\ flagged' = <<>>
    /\ alerts' = <<>>
    /\ phases' = <<>>
    /\ last' = NoLast
    /\ err' = ""
    /\ alerted' = [t \in DOMAIN alerted |->
                      IF \E i \in DOMAIN alerts : alerts[i].token = t
                      THEN Len(Group(store, t))
                      ELSE alerted[t]]
    /\ UNCHANGED <<config, pending, store, probe>>

Next == Fetch \/ Admit \/ Commit \/ Analyze \/ Alert \/ Except \/ Sleep

Spec == Init /\ [][Next]_vars

\* the loop under the configuration with everything enabled
FairInit == Init /\ config = BaseConfig

\* the loop body is straight-line code: whenever a step is possible the
\* interpreter takes it
FairSpec == FairInit /\ [][Next]_vars /\ WF_vars(Next)

----------------------------------------------------------------------------
(* Direct calls of verify_volume and verify_rugcheck over every             *)
(* configuration shape and provider answer                                  *)

OptionalSetting(name) == {"", name}

VerifyVolumeConfigs ==
    {With(BaseConfig, internal, pu, puUrl, puTok, "rug_url", "rug_token") :
        internal \in BOOLEAN, pu \in BOOLEAN,
        puUrl \in OptionalSetting("pu_url"), puTok \in OptionalSetting("pu_token")}

VerifyRugcheckConfigs ==
    {[With(BaseConfig, TRUE, TRUE, "pu_url", "pu_token", rugUrl, rugTok)
        EXCEPT !.required_status = st] :
        rugUrl \in OptionalSetting("rug_url"),
        rugTok \in OptionalSetting("rug_token"),
        st \in {"Good", "Verified"}}

VolumeBoxes ==
    {Box("absent", Absent), Box("null", Null), Box("dict", Absent),
     Box("dict", Null), Box("dict", Junk), Box("dict", Num(2)),
     Box("dict", Num(5)), Box("dict", NumStr(10))}

AllPUResps ==
    {PUResp(k, "absent") : k \in {"neterr", "http", "notjson", "nonobj"}}
    \cup {PUResp("obj", a) : a \in {"absent", "true", "false"}}

AllRugResps ==
    {RugResp(k, "", "absent") : k \in {"neterr", "http", "notjson", "nonobj"}}
    \cup {RugResp("obj", st, b) : st \in {"", "Good", "Bad", "good", "Verified"},
                                  b \in {"absent", "true", "false"}}

ProbeOf(fn, cfg, addr, info, pu, rug) ==
    [fn |-> fn, cfg |-> cfg, addr |-> addr, info |-> info, pu |-> pu,
     rug |-> rug, done |-> FALSE, raised |-> FALSE, ret |-> FALSE,
     called |-> FALSE]

VerifyProbes ==
    {ProbeOf("verify_volume", cfg, "0xA",
             InfoResp("ok", Box("dict", Num(20)), Num(10), vol), pu, NoRug) :
        cfg \in VerifyVolumeConfigs, vol \in VolumeBoxes, pu \in AllPUResps}
    \cup {ProbeOf("verify_rugcheck", cfg, addr, NoInfo, NoPU, rug) :
            cfg \in VerifyRugcheckConfigs, addr \in {"0xA", "", NoAddr},
            rug \in AllRugResps}

\* config.json without a liquidity floor, a lower price bound and the
\* internal algorithm: the defaults of filters.get("min_liquidity_usd", 0),
\* filters.get("min_price_usd", 0) and get("use_internal_algorithm", False)
NoFloorConfig ==
    [With(BaseConfig, FALSE, TRUE, "pu_url", "pu_token", "rug_url", "rug_token")
        EXCEPT !.min_liquidity_usd = 0, !.min_price_usd = 0]

\* what info['liquidity'] / info['volume'] can hold around the number n
ParseBoxes(n) ==
    {Box("absent", Absent), Box("null", Null), Box("dict", Absent),
     Box("dict", Null), Box("dict", Junk), Box("dict", Num(n))}

ParsePrices == {Absent, Null, Junk, Num(10)}

\* one pass of the loop body for candidate 0xA over every shape of the three
\* numeric fields, both providers answering favourably
LoopBodyProbes ==
    {ProbeOf("loop_body", cfg, "0xA", InfoResp("ok", liq, price, vol),
             PUResp("obj", "true"), RugResp("obj", "Good", "false")) :
        cfg \in LoopConfigs \cup {NoFloorConfig},
        liq \in ParseBoxes(20), price \in ParsePrices, vol \in ParseBoxes(5)}

Idle ==
    /\ config = BaseConfig
    /\ token_list = <<>>
    /\ idx = 0
    /\ pending = <<>>
    /\ hour = 0
    /\ flagged = <<>>
    /\ alerts = <<>>
    /\ phases = <<>>
    /\ last = NoLast
    /\ err = ""
    /\ alerted = NoAlerted

VerifyInit ==
    /\ Idle
    /\ store = <<>>
    /\ pc = "call"
    /\ probe \in VerifyProbes \cup LoopBodyProbes

Returned(p, r) ==
    [p EXCEPT !.done = TRUE, !.raised = r.raised, !.ret = r.ret,
              !.called = r.called]

VerifyVolumeCall ==
    /\ pc = "call"
    /\ probe.fn = "verify_volume"
    /\ probe' = Returned(probe, verify_volume(probe.info, probe.cfg, probe.pu))
    /\ pc' = "returned"
    /\ UNCHANGED <<config, alerted, token_list, idx, pending, store, hour, flagged,
                   alerts, phases, last, err>>

VerifyRugcheckCall ==
    /\ pc = "call"
    /\ probe.fn = "verify_rugcheck"
    /\ probe' = Returned(probe, verify_rugcheck(probe.addr, probe.cfg, probe.rug))
    /\ pc' = "returned"
    /\ UNCHANGED <<config, alerted, token_list, idx, pending, store, hour, flagged,
                   alerts, phases, last, err>>

\* the body of the for loop run once on the probe's candidate: raised = an
\* exception leaves the body, ret = a snapshot was added to the session,
\* called = a provider was asked
LoopBodyCall ==
    /\ pc = "call"
    /\ probe.fn = "loop_body"
    /\ LET out == ProcessCandidate(Candidate(probe.addr, NoDev), probe.cfg,
                                   probe.info, probe.pu, probe.rug)
       IN  probe' = Returned(probe, [raised |-> out.raised # "",
                                     ret |-> out.queued,
                                     called |-> Len(out.calls) > 1])
    /\ pc' = "returned"
    /\ UNCHANGED <<config, alerted, token_list, idx, pending, store, hour, flagged,
                   alerts, phases, last, err>>

VerifyNext == VerifyVolumeCall \/ VerifyRugcheckCall \/ LoopBodyCall

SpecVerify == VerifyInit /\ [][VerifyNext]_vars

----------------------------------------------------------------------------
(* Direct calls of analyze_token_trends over bounded table contents         *)

TrendPrices == {0, 10, 14, 15, 16}

\* three hours, so that a token can have a bucket between its first and last
TrendHours == {0, 1, 2}

TrendRows ==
    {Stamp(Snapshot(Candidate(a, NoDev), p, 20, 5, TRUE), h) :
        a \in {"0xA", "0xB"}, p \in TrendPrices, h \in TrendHours}

\* rows are inserted in clock order: the clock does not run backwards
ClockOrdered(t) ==
    \A i \in DOMAIN t : \A j \in DOMAIN t :
        i < j => t[i].timestamp <= t[j].timestamp

\* the table holds any rows the loop can have committed
TrendInit ==
    /\ Idle
    /\ probe = NoProbe
    /\ pc = "analyze"
    /\ \E n \in 0..MaxTrend :
          /\ store \in [1..n -> TrendRows]
          /\ ClockOrdered(store)

TrendAnalyze ==
    /\ pc = "analyze"
    /\ flagged' = analyze_token_trends(store)
    /\ pc' = "analyzed"
    /\ UNCHANGED <<config, alerted, token_list, idx, pending, store, hour, alerts,
                   phases, last, err, probe>>

TrendNext == TrendAnalyze

SpecTrend == TrendInit /\ [][TrendNext]_vars

----------------------------------------------------------------------------
(* The analysis and alert phases of an iteration over bounded table contents *)

\* the telegram section of config.json: complete, or lacking either setting
AlertConfigs ==
    {[BaseConfig EXCEPT !.tg_bot_token = b, !.tg_chat_id = c] :
        b \in OptionalSetting("bot_token"), c \in OptionalSetting("chat_id")}

AlertRows ==
    {Stamp(Snapshot(Candidate(a, NoDev), p, 20, 5, TRUE), h) :
        a \in {"0xA", "0xB"}, p \in {10, 16}, h \in {0, 1}}

\* the iteration fetched an empty token_list and its commit succeeded; the
\* table holds what earlier iterations committed
AlertInit ==
    /\ config \in AlertConfigs
    /\ pc = "analyze"
    /\ token_list = <<>>
    /\ idx = 0
    /\ pending = <<>>
    /\ hour = 1
    /\ flagged = <<>>
    /\ alerts = <<>>
    /\ phases = <<"fetch", "commit">>
    /\ last = NoLast
    /\ err = ""
    /\ probe = NoProbe
    /\ alerted = NoAlerted
    /\ \E n \in 0..MaxAlertRows :
          /\ store \in [1..n -> AlertRows]
          /\ ClockOrdered(store)

AlertNext == Analyze \/ Alert \/ Except \/ Sleep

SpecAlert == AlertInit /\ [][AlertNext]_vars

----------------------------------------------------------------------------
(* Properties of the admission pipeline *)

Range(q) == {q[i] : i \in DOMAIN q}

\* a loop-body pass is the only step possible at this position
AtCandidate == pc = "loop" /\ idx < Len(token_list)

\* C1: every snapshot that a commit writes to the table belongs to a
\* candidate for which verify_rugcheck returned True (stage 6 of the admission
\* pipeline passed); the table starts empty and only a commit adds rows.
StoreOnlyRugcheckPassed ==
    [][(pc = "loop" /\ pc' = "analyze" /\ store' # store)
        => \A i \in DOMAIN pending : pending[i].rug_ok]_vars

\* the blacklist conditions of stages 1 and 2, stated on the candidate
InCoinBlacklist(cand) == cand.tokenAddress \in config.coin_blacklist

InDevBlacklist(cand) ==
    /\ cand.developer.present
    /\ \E d \in config.dev_blacklist : Lower(cand.developer.s) = Lower(d)

\* C2: a candidate whose address is in coin_blacklist, or whose developer
\* equals a dev_blacklist entry case-insensitively, is passed over with no
\* outbound call (get_token_info, Pocket Universe, RugCheck) and nothing is
\* added to the session.
BlacklistedRejectedWithoutCalls ==
    [][(AtCandidate /\ (\/ InCoinBlacklist(token_list[idx + 1])
                        \/ InDevBlacklist(token_list[idx + 1])))
        => /\ last'.cand = token_list[idx + 1]
           /\ last'.out.calls = <<>>
           /\ ~last'.out.queued
           /\ pending' = pending
           /\ pc' = "loop" /\ idx' = idx + 1]_vars

\* a developer written in another case than the blacklist entry was passed
\* over after an earlier candidate had been queued
BlacklistedRejectedWitness ==
    /\ last.out.stage = "dev_blacklist"
    /\ last.cand.developer.s = DevRUG
    /\ DevRUG \notin config.dev_blacklist
    /\ Len(pending) = 1 /\ idx = 2

\* C3: once the liquidity floor or the price band rejects a candidate there is
\* neither a Pocket Universe nor a RugCheck call for it, and once the volume
\* stage rejects it (internal algorithm or Pocket Universe) there is no
\* RugCheck call for it.
ShortCircuitOrdering ==
    LET o == last.out
        liquidity == NestedFloat(o.info.liquidity)
        price_usd == FloatOrZero(o.info.priceUsd)
        volume == NestedFloat(o.info.volume)
        boundsReject == \/ liquidity < config.min_liquidity_usd
                        \/ price_usd < config.min_price_usd
                        \/ price_usd > config.max_price_usd
        internalReject == /\ config.use_internal_algorithm
                          /\ volume < config.fake_volume_threshold
        providerReject == /\ "pocket_universe" \in Range(o.calls)
                          /\ o.pu.k # "obj" \/ o.pu.volumeAuthentic # "true"
    IN  (o.info.k = "ok" /\ o.raised = "")
        => /\ boundsReject =>
                Range(o.calls) \cap {"pocket_universe", "rugcheck"} = {}
           /\ (~boundsReject /\ internalReject) =>
                Range(o.calls) \cap {"pocket_universe", "rugcheck"} = {}
           /\ (o.stage = "volume" \/ providerReject) =>
                "rugcheck" \notin Range(o.calls)

\* Pocket Universe rejected a candidate while RugCheck was configured, and
\* RugCheck was not asked
ShortCircuitWitness ==
    /\ last.out.stage = "volume"
    /\ last.out.calls = <<"get_token_info", "pocket_universe">>
    /\ last.out.pu = PUResp("obj", "false")
    /\ RugcheckConfigured(last.cand.tokenAddress, config)

\* stages 1 to 5 on a candidate and its fetched pair record
PassesStages1To5(cand, info, pu) ==
    /\ ~InCoinBlacklist(cand)
    /\ ~InDevBlacklist(cand)
    /\ NestedFloat(info.liquidity) >= config.min_liquidity_usd
    /\ config.min_price_usd <= FloatOrZero(info.priceUsd)
    /\ FloatOrZero(info.priceUsd) <= config.max_price_usd
    /\ verify_volume(info, config, pu).ret

----------------------------------------------------------------------------
(* Properties of the verification helpers *)

ProbeResp == IF probe.fn = "verify_volume" THEN probe.pu ELSE probe.rug

\* C5: when the provider call made inside verify_volume or verify_rugcheck
\* fails (network error, non-2xx status, body that is not a JSON object), the
\* helper returns False and no exception leaves it; verify_volume then returns
\* what it returns for an explicit volumeAuthentic = false.
FailClosedVerification ==
    (/\ probe.done /\ probe.called
     /\ ProbeResp.k \in {"neterr", "http", "notjson", "nonobj"})
    => /\ ~probe.raised
       /\ probe.ret = FALSE
       /\ probe.fn = "verify_volume"
          => verify_volume(probe.info, probe.cfg, PUResp("obj", "false")).ret
                = probe.ret

\* RugCheck answered with a body that is not JSON and verify_rugcheck
\* returned False
FailClosedWitness ==
    /\ probe.done /\ probe.fn = "verify_rugcheck"
    /\ probe.called /\ probe.rug.k = "notjson"
    /\ ~probe.ret /\ ~probe.raised

\* C6: a verification check that is enabled but lacks a credential rejects:
\* verify_rugcheck returns False without api_url, api_token or token address,
\* and verify_volume returns False when use_pocket_universe is true and the
\* Pocket Universe api_url or api_token is absent.
IncompleteConfigRejects ==
    probe.done
    => /\ (/\ probe.fn = "verify_rugcheck"
           /\ \/ probe.cfg.rug_api_url = "" \/ probe.cfg.rug_api_token = ""
              \/ probe.addr \in {"", NoAddr})
          => probe.ret = FALSE
       /\ (/\ probe.fn = "verify_volume"
           /\ probe.cfg.use_pocket_universe
           /\ probe.cfg.pu_api_url = "" \/ probe.cfg.pu_api_token = ""
           /\ ~probe.raised)
          => probe.ret = FALSE

----------------------------------------------------------------------------
(* Properties of the scheduler loop *)

\* C7: an empty list from get_token_info skips only that candidate: the
\* iteration is not aborted and goes on with the for loop.
EmptyInfoSkipsOnlyCandidate ==
    last.out.info.k = "empty" => (pc = "loop" /\ err = "")

\* C8: a failing session_db.commit() leaves the table as it was (no row of
\* the batch is written), the batch is discarded by the rollback, neither
\* the analysis nor any alert runs in that iteration, and the loop goes on to
\* the sleep and the next fetch with an empty session.
CommitFailureAtomic ==
    /\ [](err = "commit"
          => /\ pc \in {"except", "sleep"}
             /\ Range(phases) \cap {"analyze", "alert"} = {}
             /\ flagged = <<>> /\ alerts = <<>>)
    /\ [][/\ (pc = "loop" /\ pc' = "except" /\ err' = "commit") => store' = store
          /\ (err = "commit" /\ pc = "except")
             => (store' = store /\ pending' = <<>> /\ pc' = "sleep")
          /\ (err = "commit" /\ pc = "sleep")
             => (store' = store /\ pending' = <<>> /\ pc' = "fetch"
                 /\ err' = "")]_vars

\* a commit failed after a snapshot had been queued: the table is still empty
\* and the session holds nothing
CommitFailureWitness ==
    /\ pc = "sleep" /\ err = "commit"
    /\ last.out.queued
    /\ store = <<>> /\ pending = <<>>

\* C9: whatever raises in an iteration (profile fetch, a loop-body pass, the
\* commit, the analysis), the handler rolls the session back and goes to the
\* sleep; the loop sleeps and fetches again and again, for ever.
SchedulerLiveness ==
    /\ [](err # "" => pc \in {"except", "sleep"})
    /\ [][pc = "except" => (pending' = <<>> /\ pc' = "sleep")]_vars
    /\ (pc = "except") ~> (pc = "sleep")
    /\ (pc = "sleep") ~> (pc = "fetch")
    /\ []<>(pc = "sleep")

\* the analysis raised after rows had been committed, and the loop is at its
\* sleep with the session rolled back
SchedulerLivenessWitness ==
    /\ pc = "sleep" /\ err = "analyze"
    /\ phases = <<"fetch", "admit", "commit", "analyze", "rollback">>
    /\ store # <<>> /\ pending = <<>>

----------------------------------------------------------------------------
(* Properties of analyze_token_trends *)

RowsOf(t) == {i \in DOMAIN store : store[i].token_address = t}

BucketHours(t) == {store[i].timestamp : i \in RowsOf(t)}

\* the price of the latest row of token t within hour h
BucketPrice(t, h) ==
    LET inHour == {i \in RowsOf(t) : store[i].timestamp = h}
        i == CHOOSE k \in inHour : \A j \in inHour : j <= k
    IN  store[i].price_usd

FirstBucketPrice(t) ==
    BucketPrice(t, CHOOSE h \in BucketHours(t) : \A k \in BucketHours(t) : h <= k)

LastBucketPrice(t) ==
    BucketPrice(t, CHOOSE h \in BucketHours(t) : \A k \in BucketHours(t) : k <= h)

FlaggedTokens == {flagged[i].token : i \in DOMAIN flagged}

\* C10: a token is flagged exactly when it has at least 2 non-empty hourly
\* buckets and (last - first) / first * 100 > 50, the reported change being
\* that quotient; with a first price of 0 the quotient is numpy's (inf for a
\* positive numerator, nan for 0 / 0).
PumpFlagging ==
    pc = "analyzed"
    => \A t \in {"0xA", "0xB"} :
          /\ Cardinality(BucketHours(t)) < 2 => t \notin FlaggedTokens
          /\ Cardinality(BucketHours(t)) >= 2
             => LET first == FirstBucketPrice(t)
                    lst == LastBucketPrice(t)
                IN  /\ first > 0
                       => (t \in FlaggedTokens
                             <=> (lst - first) * 100 > 50 * first)
                    /\ first = 0 => (t \in FlaggedTokens <=> lst > 0)
                    /\ \A i \in DOMAIN flagged :
                          flagged[i].token = t
                          => /\ flagged[i].change.den = first
                             /\ flagged[i].change.num = (lst - first) * 100

\* 0xA went from 1.0 to 1.6 and is flagged with a change of 60; 0xB has a
\* single bucket and is not flagged
PumpFlaggingWitness ==
    /\ pc = "analyzed"
    /\ flagged = <<[token |-> "0xA", change |-> [num |-> 600, den |-> 10]]>>
    /\ Cardinality(BucketHours("0xB")) = 1
    /\ Len(store) = 3

\* C11: a token whose first hourly bucket price is 0 is never flagged,
\* whatever its last bucket price (analyze_token_trends itself raises nothing:
\* every direct call returns).
DivisionGuard ==
    pc = "analyzed"
    => \A t \in {"0xA", "0xB"} :
          (BucketHours(t) # {} /\ FirstBucketPrice(t) = 0)
          => t \notin FlaggedTokens

----------------------------------------------------------------------------
(* Further properties of the verification helpers *)

\* the 1-hour volume verify_volume compares, read from the pair record of the
\* call: the number, or 0 for an absent key, a null or a non-numeric string
ProbeVolume ==
    IF probe.info.volume.c # "dict" THEN 0
    ELSE IF probe.info.volume.x.t \in {"num", "numstr"}
         THEN probe.info.volume.x.v
         ELSE 0

\* C12: with use_internal_algorithm enabled and the 1-hour volume strictly
\* below fake_volume_threshold, verify_volume returns False under every Pocket
\* Universe configuration and provider answer; a volume equal to the threshold
\* is not rejected by the internal check (the call returns True when Pocket
\* Universe is not asked or answers volumeAuthentic = true).
InternalVolumeCheck ==
    (/\ probe.done /\ probe.fn = "verify_volume"
     /\ probe.info.volume.c # "null"
     /\ probe.cfg.use_internal_algorithm)
    => /\ ProbeVolume < probe.cfg.fake_volume_threshold
          => (probe.ret = FALSE /\ ~probe.raised)
       /\ (/\ ProbeVolume = probe.cfg.fake_volume_threshold
           /\ \/ ~probe.cfg.use_pocket_universe
              \/ probe.cfg.pu_api_url = "" \/ probe.cfg.pu_api_token = ""
              \/ (probe.pu.k = "obj" /\ probe.pu.volumeAuthentic = "true"))
          => probe.ret = TRUE

\* the volume was below the threshold while Pocket Universe was configured and
\* would have answered volumeAuthentic = true: verify_volume returned False
InternalVolumeWitness ==
    /\ probe.done /\ probe.fn = "verify_volume"
    /\ probe.cfg.use_internal_algorithm
    /\ probe.info.volume = Box("dict", Num(2))
    /\ probe.cfg.use_pocket_universe
    /\ probe.cfg.pu_api_url # "" /\ probe.cfg.pu_api_token # ""
    /\ probe.pu = PUResp("obj", "true")
    /\ probe.ret = FALSE

\* C13: verify_rugcheck returns True exactly when api_url, api_token and the
\* token address are present, the provider call succeeds, the returned status
\* equals required_status character for character and the provider returned
\* bundled = false; in every other case it returns False, and it never raises.
RugcheckVerdict ==
    (probe.done /\ probe.fn = "verify_rugcheck")
    => /\ ~probe.raised
       /\ probe.ret = TRUE
          <=> /\ probe.cfg.rug_api_url # "" /\ probe.cfg.rug_api_token # ""
              /\ probe.addr \notin {"", NoAddr}
              /\ probe.rug.k = "obj"
              /\ probe.rug.status = probe.cfg.required_status
              /\ probe.rug.bundled = "false"

----------------------------------------------------------------------------
(* Further properties of the scheduler loop *)

\* C14: the table is append-only: no step of the loop changes or removes a
\* committed row, every step leaves the earlier rows in place as a prefix of
\* the table, only the commit adds rows, and the rollback of the exception
\* handler empties the session without touching the table.
AppendOnlyStore ==
    [][/\ Len(store') >= Len(store)
       /\ \A i \in DOMAIN store : store'[i] = store[i]
       /\ (pc # "loop" \/ idx < Len(token_list)) => store' = store
       /\ pc = "except" => (store' = store /\ pending' = <<>>)]_vars

\* a row was committed in an earlier iteration; in this one a snapshot was
\* queued, the commit failed and the rollback discarded it: the table still
\* holds the earlier row only
AppendOnlyWitness ==
    /\ pc = "sleep" /\ err = "commit"
    /\ "rollback" \in Range(phases)
    /\ last.out.queued
    /\ Len(store) = 1 /\ pending = <<>>

\* the order in which an iteration may enter its phases
PhaseOrder == <<"fetch", "admit", "commit", "analyze", "alert", "rollback">>

PhaseRank(p) == CHOOSE i \in DOMAIN PhaseOrder : PhaseOrder[i] = p

\* the tokens of the table with at least two hourly buckets whose change
\* exceeds 50 percent (the first price of a committed row is positive here)
PumpedInStore ==
    {t \in {"0xA", "0xB"} :
        /\ Cardinality(BucketHours(t)) >= 2
        /\ FirstBucketPrice(t) > 0
        /\ (LastBucketPrice(t) - FirstBucketPrice(t)) * 100
              > 50 * FirstBucketPrice(t)}

\* C15: an iteration enters its phases in the order fetch, admission, commit,
\* analysis, alerts, and sleeps last; the analysis starts only from a commit
\* that succeeded after every candidate was processed, with nothing left
\* uncommitted, and its signals are computed from the table that holds the rows
\* of this iteration; alerts are attempted only for the signals of that
\* analysis, in their order.
CyclePhaseOrdering ==
    /\ [](/\ \A i \in DOMAIN phases : \A j \in DOMAIN phases :
                i < j => PhaseRank(phases[i]) < PhaseRank(phases[j])
          /\ phases # <<>> => phases[1] = "fetch"
          /\ "commit" \in Range(phases) => idx = Len(token_list)
          /\ "analyze" \in Range(phases)
             => ("commit" \in Range(phases) /\ err \in {"", "analyze"})
          /\ "alert" \in Range(phases) => "analyze" \in Range(phases)
          /\ pc \in {"analyze", "alert"} => (pending = <<>> /\ err = "")
          /\ Len(alerts) <= Len(flagged)
          /\ \A i \in DOMAIN alerts : alerts[i].token = flagged[i].token
          /\ pc = "alert" => FlaggedTokens = PumpedInStore)
    /\ [][/\ (pc # "analyze" /\ pc' = "analyze")
             => /\ pc = "loop" /\ idx = Len(token_list)
                /\ Len(store') = Len(store) + Len(pending)
                /\ pending' = <<>>
          /\ (pc = "analyze" /\ pc' # "except")
             => /\ store' = store
                /\ {flagged'[i].token : i \in DOMAIN flagged'} = PumpedInStore
                /\ pc' = IF PumpedInStore = {} THEN "sleep" ELSE "alert"
          /\ (pc = "alert" /\ pc' = "sleep") => Len(alerts') = Len(flagged)
          /\ (pc # "sleep" /\ pc' = "sleep")
             => pc \in {"analyze", "alert", "except"}
          /\ pc = "sleep" => pc' = "fetch"]_vars

\* the iteration committed the row that completes 0xA's rise from 1.0 to 1.6,
\* its analysis flagged 0xA and the alert for it was attempted
CyclePhaseWitness ==
    /\ pc = "sleep"
    /\ phases = <<"fetch", "admit", "commit", "analyze", "alert">>
    /\ Len(store) = 2 /\ store[2].timestamp = hour /\ store[1].timestamp < hour
    /\ Len(alerts) = 1 /\ alerts[1].token = "0xA"
    /\ flagged[1].token = "0xA"

----------------------------------------------------------------------------
(* Numeric coercion *)

\* C16: whatever the liquidity, price and 1-hour volume fields of the pair
\* record hold (a number, an absent key, null, a non-numeric string, or a null
\* liquidity / volume container), neither verify_volume nor the loop body
\* raises.
NumericCoercion ==
    (probe.done /\ probe.fn \in {"verify_volume", "loop_body"})
    => ~probe.raised

----------------------------------------------------------------------------
(* Properties of the alert phase *)

TelegramConfigured == config.tg_bot_token # "" /\ config.tg_chat_id # ""

\* C17: without a bot_token or a chat_id every notification is a no-op; a
\* notification, delivered or not, never raises: each pass of the alert loop
\* goes on to the next signal or to the sleep, so every signal of the iteration
\* is attempted in order, the handler's rollback is never entered from the
\* alert phase and the table is left as the commit wrote it.
AlertSinkIsolation ==
    /\ [](/\ ~TelegramConfigured
             => \A i \in DOMAIN alerts : alerts[i].outcome = "noop"
          /\ TelegramConfigured
             => \A i \in DOMAIN alerts : alerts[i].outcome \in {"sent", "failed"}
          /\ "alert" \in Range(phases)
             => ("rollback" \notin Range(phases) /\ err = "")
          /\ (pc = "sleep" /\ err = "") => Len(alerts) = Len(flagged)
          /\ \A i \in DOMAIN alerts : alerts[i].token = flagged[i].token)
    /\ [][pc = "alert"
          => /\ pc' \in {"alert", "sleep"}
             /\ Len(alerts') = Len(alerts) + 1
             /\ store' = store /\ pending' = pending /\ flagged' = flagged
             /\ err' = ""]_vars

\* two signals in one iteration: the delivery of the first alert failed and
\* the second was still sent, with the four committed rows in place
AlertSinkWitness ==
    /\ pc = "sleep" /\ err = ""
    /\ Len(flagged) = 2 /\ Len(alerts) = 2
    /\ alerts[1].outcome = "failed" /\ alerts[2].outcome = "sent"
    /\ Len(store) = 4

----------------------------------------------------------------------------
(* The session across iterations *)

\* C18: every iteration starts with an empty session: at the fetch and at the
\* sleep nothing is pending, the session never holds more snapshots than
\* candidates processed in the current iteration, the handler's rollback
\* removes all of them without writing any, and a commit writes only what the
\* current iteration queued; so a snapshot queued in an iteration that fails
\* later is never committed by a later iteration.
NoLeakAcrossCycles ==
    /\ [](/\ pc \in {"fetch", "sleep"} => pending = <<>>
          /\ Len(pending) <= idx)
    /\ [][/\ pc = "except"
             => /\ pending' = <<>> /\ store' = store
                /\ last'.discarded = Len(pending)
          /\ (pc = "loop" /\ pc' = "analyze")
             => Len(store') - Len(store) <= idx]_vars

\* the first candidate was queued, get_token_info raised for the second, and
\* the rollback removed the queued snapshot: nothing is pending and nothing
\* was written
NoLeakWitness ==
    /\ pc = "sleep" /\ err = "admit"
    /\ idx = 1 /\ Len(token_list) = 2
    /\ last.out.stage = "fetch" /\ last.out.raised = "HTTPError"
    /\ last.discarded = 1
    /\ pending = <<>> /\ store = <<>>

----------------------------------------------------------------------------
(* Signals across iterations *)

\* an alert was attempted for token t in an earlier iteration and the table
\* has gained no row of t since
AlertedAndUnchanged(t) ==
    alerted[t] > 0 /\ Cardinality(RowsOf(t)) = alerted[t]

\* C19: signals are not deduplicated across iterations: a token for which an
\* alert was attempted in an earlier iteration is flagged again by every later
\* analysis that completes while the table holds no new row of that token, and
\* an alert for it is attempted again before that iteration sleeps; the
\* flagged set is the pumped tokens of the table whatever was alerted before.
NoAlertDeduplication ==
    /\ [][(pc = "analyze" /\ pc' # "except")
          => /\ {flagged'[i].token : i \in DOMAIN flagged'} = PumpedInStore
             /\ \A t \in DOMAIN alerted :
                   AlertedAndUnchanged(t) => t \in PumpedInStore]_vars
    /\ []((pc = "sleep" /\ err = "")
          => \A t \in DOMAIN alerted :
                AlertedAndUnchanged(t)
                => \E i \in DOMAIN alerts : alerts[i].token = t)

\* 0xA was alerted for when its second row was committed; a later iteration
\* admitted nothing and attempted the alert for 0xA again
NoAlertDeduplicationWitness ==
    /\ pc = "sleep" /\ err = ""
    /\ alerted["0xA"] = 2 /\ Len(store) = 2
    /\ "admit" \notin Range(phases)
    /\ Len(alerts) = 1 /\ alerts[1].token = "0xA"

====
